---- MODULE Spec2Model ----
(***************************************************************************)
(* A model of taskwait (src/src/taskwait/__init__.py): the blocking wait   *)
(* on an externally managed task.  One wait is modelled: the construction  *)
(* of _RunningTask, the two polling loops _wait_to_start and               *)
(* _wait_to_finish, the pacing function _delay, the log tail               *)
(* _show_new_log and the progress display _very_simple_progress.           *)
(*                                                                         *)
(* The task is the environment: every status() call returns any status of  *)
(* the vocabulary or raises, every log() call returns any log value the    *)
(* task's contract allows or raises.  The clock is the integer now; it     *)
(* advances while status() runs (by a duration the environment chooses)    *)
(* and while time.sleep runs (by the requested amount).                    *)
(*                                                                         *)
(* An optional value (Python's None or a value) is the empty sequence or   *)
(* a one-element sequence.                                                 *)
(***************************************************************************)
EXTENDS Integers, Sequences, FiniteSets, TLC

\* ---------------------------------------------------------------- bounds
MaxPoll == 2
MaxTimeout == 1
MaxStep == 1
MaxLog == 2
\* The most loop iterations (paced calls) of one wait.
MaxPolls == 3
\* The longest log value and the largest cursor the tail step is tried on.
MaxTail == 3
\* The largest clock value: the latest deadline, one sleep and one query later.
MaxTime == MaxTimeout + MaxPoll + 2 * MaxStep

\* ------------------------------------------------------------ vocabulary
None == <<>>
Some(v) == <<v>>

status_waiting == {"created"}
status_running == {"running"}
StatusTerminal == {"done", "failed"}
Statuses == status_waiting \cup status_running \cup StatusTerminal
\* The outcome of a call that raises instead of returning.
Raise == "<raise>"

\* The task's i-th log line.  The wait never reads a line's text, so one text
\* per position is every case of it.
LogLine(i) == "Log entry " \o ToString(i)
\* The task's first n log lines.
LogOf(n) == [i \in 1..n |-> LogLine(i)]
\* What log() may return: None, or a list of lines.
LogValues == {None} \cup {Some(LogOf(n)) : n \in 0..MaxLog}
\* The lines of a log value (None has none).
Lines(value) == IF value = None THEN <<>> ELSE value[1]
IsPrefix(s, t) == Len(s) <= Len(t) /\ SubSeq(t, 1, Len(s)) = s

VARIABLES
    pc,            \* where the wait is
    now,           \* the clock, time.time()
    arg_show_log,  \* taskwait's show_log argument
    arg_progress,  \* taskwait's progress argument
    arg_timeout,   \* taskwait's timeout argument: None or seconds
    has_log,       \* what task.has_log() returns
    appendOnly,    \* whether the task's log() keeps its append-only contract
    _show_log, _progress, _poll, _skip, _t0, _status, _last_time, _time_end,
    log,           \* the value the last log() call returned (None before any)
    out,           \* standard output: the fragments written, in order
    result,        \* None, or the Result returned
    nStatus,       \* status() calls made
    nDelay,        \* _delay calls made
    slept,         \* the argument of time.sleep in the last _delay (0: no sleep)
    nLog,          \* log() calls made
    nWaitIter,     \* iterations of the loop of _wait_to_start
    nRunIter,      \* iterations of the loop of _wait_to_finish
    firstTerminal, \* the first status observed in neither set (None before)
    gap,           \* the clock time between the last two paced status() calls
    failures       \* status() and log() calls that raised

vars == <<pc, now, arg_show_log, arg_progress, arg_timeout, has_log, appendOnly,
          _show_log, _progress, _poll, _skip, _t0, _status, _last_time, _time_end,
          log, out, result, nStatus, nDelay, slept, nLog, nWaitIter, nRunIter,
          firstTerminal, gap, failures>>

\* The arguments of the wait and the task's flags, fixed once the wait starts.
args == <<arg_show_log, arg_progress, arg_timeout, has_log, appendOnly>>

\* ------------------------------------------------------- pure functions

\* A slip: the log shown when either is set: show_log or task.has_log().
EffectiveShowLogOr(show_log, hasLog) == show_log \/ hasLog

\* A slip: the log flag set to the argument, task.has_log() not asked.
EffectiveShowLogNoTask(show_log, hasLog) == show_log

\* _RunningTask.__init__: self._show_log = show_log and task.has_log()
EffectiveShowLog(show_log, hasLog) == show_log /\ hasLog

\* A slip: the progress flag set to the argument, whatever the log flag.
EffectiveProgressAlways(progress, showLog) == progress

\* _RunningTask.__init__: self._progress = progress and not self._show_log
EffectiveProgress(progress, showLog) == progress /\ ~showLog

\* _RunningTask.__init__: math.inf if timeout is None else time.time() + timeout,
\* t the clock at that time.time() call; None stands for math.inf.
TimeEnd(timeout, t) == IF timeout = None THEN None ELSE Some(t + timeout[1])

\* now > end, where end may be math.inf
After(t, end) == end # None /\ t > end[1]

\* A slip: no deadline check.
_delay_no_check(prev, poll, end, t) ==
    IF prev = None THEN [raised |-> FALSE, wait |-> 0, ret |-> t]
    ELSE LET wait == poll - (t - prev[1])
         IN [raised |-> FALSE, wait |-> IF wait > 0 THEN wait ELSE 0, ret |-> t]

\* A slip: time.sleep(poll), the time since the previous call not deducted.
_delay_full_poll(prev, poll, end, t) ==
    IF prev = None THEN [raised |-> FALSE, wait |-> 0, ret |-> t]
    ELSE IF After(t, end) THEN [raised |-> TRUE, wait |-> 0, ret |-> t]
    ELSE [raised |-> FALSE, wait |-> poll, ret |-> t]

\* A slip: the sleep first, the deadline checked when it is over.
_delay_sleep_first(prev, poll, end, t) ==
    IF prev = None THEN [raised |-> FALSE, wait |-> 0, ret |-> t]
    ELSE LET wait == poll - (t - prev[1])
             sleep == IF wait > 0 THEN wait ELSE 0
         IN [raised |-> After(t + sleep, end), wait |-> sleep, ret |-> t]

\* _delay(prev, poll, end) with time.time() = t: whether it raises TimeoutError,
\* the argument of time.sleep (0: no sleep) and the value returned.
_delay(prev, poll, end, t) ==
    IF prev = None THEN [raised |-> FALSE, wait |-> 0, ret |-> t]
    ELSE IF After(t, end) THEN [raised |-> TRUE, wait |-> 0, ret |-> t]
    ELSE LET wait == poll - (t - prev[1])
         IN [raised |-> FALSE, wait |-> IF wait > 0 THEN wait ELSE 0, ret |-> t]

\* A slip: the slice taken one line early, value[skip - 1:].
_show_new_log_early(skip, value) ==
    IF value = None \/ Len(value[1]) = 0 \/ Len(value[1]) <= skip
    THEN [skip |-> skip, printed |-> <<>>]
    ELSE [skip |-> Len(value[1]),
          printed |-> SubSeq(value[1], IF skip > 0 THEN skip ELSE 1, Len(value[1]))]

\* A slip: the new lines printed, the cursor not advanced.
_show_new_log_stale(skip, value) ==
    IF value = None \/ Len(value[1]) = 0 \/ Len(value[1]) <= skip
    THEN [skip |-> skip, printed |-> <<>>]
    ELSE [skip |-> skip,
          printed |-> SubSeq(value[1], skip + 1, Len(value[1]))]

\* A slip: no comparison of the length with skip, the cursor follows the log.
_show_new_log_unguarded(skip, value) ==
    IF value = None \/ Len(value[1]) = 0
    THEN [skip |-> skip, printed |-> <<>>]
    ELSE [skip |-> Len(value[1]),
          printed |-> SubSeq(value[1], skip + 1, Len(value[1]))]

\* _show_new_log(skip, value): the value returned and the lines printed.
_show_new_log(skip, value) ==
    IF value = None \/ Len(value[1]) = 0 \/ Len(value[1]) <= skip
    THEN [skip |-> skip, printed |-> <<>>]
    ELSE [skip |-> Len(value[1]),
          printed |-> SubSeq(value[1], skip + 1, Len(value[1]))]

\* print("\n".join(lines)): every line, each ended by a newline.
PrintLines(lines) == [i \in 1..Len(lines) |-> lines[i] \o "\n"]

\* A slip: the waiting phase displayed on the progress flag alone.
WaitDisplayProgressOnly(showLog, progress) == progress

\* _wait_to_start: display = self._show_log or self._progress
WaitDisplay(showLog, progress) == showLog \/ progress

\* _very_simple_progress: entering the block prints the start label,
ProgressStart(start, display) == IF display THEN <<start>> ELSE <<>>
\* fn() prints a tick,
ProgressTick(display) == IF display THEN <<".">> ELSE <<>>
\* and the finally clause prints the end label and a newline.
ProgressEnd(display) == IF display THEN <<"OK\n">> ELSE <<>>

\* A slip: a plain yield, no try/finally: an exception skips the end label.
ProgressRaiseSkipped(display) == <<>>

\* An exception raised inside the block runs the same finally clause.
ProgressRaise(display) == ProgressEnd(display)

\* A slip: the running loop left only for a waiting status.
InRunningOrTerminal(s) == s \notin status_waiting

\* _wait_to_start: while self._status in self._task.status_waiting
InWaiting(s) == s \in status_waiting
\* _wait_to_finish: while self._status in self._task.status_running
InRunning(s) == s \in status_running

\* A slip: TimeoutError caught in the loop, which carries on from here.
TimedOutCaught(here) == here

\* raise TimeoutError(): nothing catches it, it leaves the loop, the
\* progress block, _wait_to_start or _wait_to_finish, and wait.
TimedOut(here) == "timeout"

\* A slip: a handler that swallows what the task raises and carries on.
PropagateSwallowed(raised, next) == next

\* No handler catches what status() or log() raises: the wait ends with it.
Propagate(raised, next) == IF raised THEN "failed" ELSE next

\* The first status observed in neither set.
NoteTerminal(first, s) ==
    IF first = None /\ s \notin status_waiting \cup status_running
    THEN Some(s) ELSE first

\* The clock when the last paced status() query was issued: when its _delay
\* call read the clock, plus the sleep that followed.
LastIssue == _last_time[1] + slept

\* What log() may return after it returned log: under the append-only
\* contract its lines extend those of log.
LogResults ==
    {v \in LogValues : appendOnly => IsPrefix(Lines(log), Lines(v))}

\* taskwait is called: any arguments, any task, nothing constructed yet.
Start ==
    /\ pc = "new"
    /\ now = 0
    /\ arg_show_log \in BOOLEAN
    /\ arg_progress \in BOOLEAN
    /\ arg_timeout \in {None} \cup {Some(t) : t \in 0..MaxTimeout}
    /\ has_log \in BOOLEAN
    /\ _poll \in 0..MaxPoll
    /\ _show_log = FALSE /\ _progress = FALSE
    /\ _skip = 0 /\ _t0 = 0 /\ _status = Raise
    /\ _last_time = None /\ _time_end = None
    /\ log = None /\ out = <<>> /\ result = None
    /\ nStatus = 0 /\ nDelay = 0 /\ slept = 0 /\ nLog = 0
    /\ nWaitIter = 0 /\ nRunIter = 0
    /\ firstTerminal = None /\ gap = None /\ failures = 0

\* A task that keeps the append-only contract of log().
Init == Start /\ appendOnly = TRUE

\* A task with a log, shown, that may break the append-only contract of
\* log(): any call may return any log value, a shorter one included.  The
\* pacing is independent of the log: it is fixed to poll = 0.
LogInit ==
    /\ Start /\ arg_show_log /\ has_log /\ _poll = 0
    /\ appendOnly \in BOOLEAN

\* The tail step alone, on any cursor and any log value: lists of up to
\* MaxTail lines of any text, None and the empty list included.
TailTexts == {"a", "b", "c"}
TailValues ==
    {None} \cup {Some(l) : l \in UNION {[1..n -> TailTexts] : n \in 0..MaxTail}}

TailInit ==
    /\ pc = "tail"
    /\ _skip \in 0..(MaxTail + 1)
    /\ log \in TailValues
    /\ now = 0
    /\ arg_show_log = TRUE /\ arg_progress = FALSE /\ arg_timeout = None
    /\ has_log = TRUE /\ appendOnly = FALSE /\ _poll = 0
    /\ _show_log = TRUE /\ _progress = FALSE
    /\ _t0 = 0 /\ _status = Raise
    /\ _last_time = None /\ _time_end = None
    /\ out = <<>> /\ result = None
    /\ nStatus = 0 /\ nDelay = 0 /\ slept = 0 /\ nLog = 0
    /\ nWaitIter = 0 /\ nRunIter = 0
    /\ firstTerminal = None /\ gap = None /\ failures = 0

\* ------------------------------------------------------------- actions

\* _RunningTask._show_new_log with log display on and log the value that
\* task.log() returned: self._skip = _show_new_log(self._skip, value).
ShowNewLog ==
    /\ pc = "tail"
    /\ pc' = "tailed"
    /\ LET shown == _show_new_log(_skip, log)
       IN  /\ _skip' = shown.skip
           /\ out' = out \o PrintLines(shown.printed)
    /\ nLog' = nLog + 1
    /\ UNCHANGED <<now, args, _show_log, _progress, _poll, _t0, _status,
                   _last_time, _time_end, log, result, nStatus, nDelay, slept,
                   nWaitIter, nRunIter, firstTerminal, gap, failures>>

TailSpec == TailInit /\ [][ShowNewLog]_vars

Durations == 0..MaxStep
\* The durations of a status() query during which the clock advances.
PositiveDurations == 1..MaxStep

\* _RunningTask.__init__ (taskwait constructs the session), with the first
\* status() query, which takes dur on the clock and returns r or raises.
Construct ==
    /\ pc = "new"
    /\ \E dur \in Durations, r \in Statuses \cup {Raise} :
        /\ _show_log' = EffectiveShowLog(arg_show_log, has_log)
        /\ _progress' = EffectiveProgress(arg_progress, _show_log')
        /\ _skip' = 0
        /\ _t0' = now
        /\ now' = now + dur
        /\ nStatus' = nStatus + 1
        /\ pc' = Propagate(r = Raise, "wait_to_start")
        /\ failures' = failures + (IF r = Raise THEN 1 ELSE 0)
        /\ _status' = r
        /\ firstTerminal' = IF r = Raise THEN firstTerminal
                            ELSE NoteTerminal(firstTerminal, r)
        /\ _last_time' = None
        /\ _time_end' = IF pc' = "failed" THEN _time_end
                        ELSE TimeEnd(arg_timeout, now')
    /\ UNCHANGED <<args, _poll, log, out, result, nDelay, slept, nLog,
                   nWaitIter, nRunIter, gap>>

\* _RunningTask._task_status: _delay, then task.status().  written is what
\* the loop body printed before the call, display the flag of the enclosing
\* progress block, whose finally clause runs when the call raises.  D is the
\* set of durations the status() query may take.
_task_status(D, written, display) ==
    LET d == _delay(_last_time, _poll, _time_end, now)
    IN  /\ nDelay' = nDelay + 1
        /\ IF d.raised
           THEN /\ pc' = TimedOut(pc)
                /\ out' = out \o written
                          \o (IF pc' = "timeout" THEN ProgressRaise(display) ELSE <<>>)
                /\ now + d.wait <= MaxTime
                /\ now' = now + d.wait
                /\ slept' = d.wait
                /\ UNCHANGED <<_status, _last_time, nStatus,
                               firstTerminal, gap, failures>>
           ELSE \E dur \in D, r \in Statuses \cup {Raise} :
                /\ now + d.wait + dur <= MaxTime
                /\ now' = now + d.wait + dur
                /\ slept' = d.wait
                /\ _last_time' = Some(d.ret)
                /\ nStatus' = nStatus + 1
                /\ gap' = IF _last_time = None THEN None
                          ELSE Some(now + d.wait - LastIssue)
                /\ pc' = Propagate(r = Raise, pc)
                /\ failures' = failures + (IF r = Raise THEN 1 ELSE 0)
                /\ _status' = IF r = Raise THEN _status ELSE r
                /\ firstTerminal' = IF r = Raise THEN firstTerminal
                                    ELSE NoteTerminal(firstTerminal, r)
                /\ out' = out \o written
                          \o (IF pc' = "failed" THEN ProgressRaise(display) ELSE <<>>)

\* _wait_to_start: entering the progress block prints its start label.
WaitToStartEnter ==
    /\ pc = "wait_to_start"
    /\ pc' = "waiting"
    /\ out' = out \o ProgressStart("Waiting", WaitDisplay(_show_log, _progress))
    /\ UNCHANGED <<now, args, _show_log, _progress, _poll, _skip, _t0, _status,
                   _last_time, _time_end, log, result, nStatus, nDelay, slept,
                   nLog, nWaitIter, nRunIter, firstTerminal, gap,
                   failures>>

\* _wait_to_start: one iteration of the loop: p(), then _task_status().
WaitToStartIter(D, maxPolls) ==
    /\ pc = "waiting"
    /\ InWaiting(_status)
    /\ nDelay < maxPolls
    /\ nWaitIter' = nWaitIter + 1
    /\ LET display == WaitDisplay(_show_log, _progress)
       IN _task_status(D, ProgressTick(display), display)
    /\ UNCHANGED <<args, _show_log, _progress, _poll, _skip, _t0, _time_end,
                   log, result, nLog, nRunIter>>

\* _wait_to_start ends and _wait_to_finish begins: the loop condition fails,
\* the finally clause of the "Waiting" block prints its end label, and
\* entering the "Running" block prints its start label.
WaitToStartExit ==
    /\ pc = "waiting"
    /\ ~InWaiting(_status)
    /\ pc' = "running"
    /\ out' = out \o ProgressEnd(WaitDisplay(_show_log, _progress))
                  \o ProgressStart("Running", _progress)
    /\ UNCHANGED <<now, args, _show_log, _progress, _poll, _skip, _t0, _status,
                   _last_time, _time_end, log, result, nStatus, nDelay, slept,
                   nLog, nWaitIter, nRunIter, firstTerminal, gap, failures>>

\* _wait_to_finish: one iteration of the loop: p(), self._show_new_log(),
\* then _task_status().
WaitToFinishIter(D, maxPolls) ==
    /\ pc = "running"
    /\ InRunning(_status)
    /\ nDelay < maxPolls
    /\ nRunIter' = nRunIter + 1
    /\ IF _show_log
       THEN \/ \* task.log() raises
               /\ nLog' = nLog + 1
               /\ failures' = failures + 1
               /\ pc' = Propagate(TRUE, pc)
               /\ out' = out \o ProgressTick(_progress)
                         \o (IF pc' = "failed" THEN ProgressRaise(_progress) ELSE <<>>)
               /\ UNCHANGED <<now, _status, _last_time, nStatus, nDelay, slept,
                              firstTerminal, gap, log, _skip>>
            \/ \E value \in LogResults :
               LET shown == _show_new_log(_skip, value)
               IN  /\ nLog' = nLog + 1
                   /\ log' = value
                   /\ _skip' = shown.skip
                   /\ _task_status(D, ProgressTick(_progress) \o PrintLines(shown.printed),
                                   _progress)
       ELSE /\ UNCHANGED <<log, _skip, nLog>>
            /\ _task_status(D, ProgressTick(_progress), _progress)
    /\ UNCHANGED <<args, _show_log, _progress, _poll, _t0, _time_end, result,
                   nWaitIter>>

\* A slip: _wait_to_finish without the self._show_new_log() after the block.
WaitToFinishExitNoFlush ==
    /\ pc = "running"
    /\ ~InRunning(_status)
    /\ pc' = "returned"
    /\ out' = out \o ProgressEnd(_progress)
    /\ result' = Some([status |-> _status, start |-> _t0, end |-> now])
    /\ UNCHANGED <<now, args, _show_log, _progress, _poll, _skip, _t0, _status,
                   _last_time, _time_end, log, nStatus, nDelay, slept, nLog,
                   nWaitIter, nRunIter, firstTerminal, gap, failures>>

\* _wait_to_finish ends and wait returns: the loop condition fails, the
\* finally clause of the "Running" block prints its end label, the
\* self._show_new_log() after the block tails the log once more, and wait
\* returns Result(self._status, self._t0, time.time()).
WaitToFinishExit ==
    /\ pc = "running"
    /\ ~InRunning(_status)
    /\ IF _show_log
       THEN \/ \* task.log() raises
               /\ nLog' = nLog + 1
               /\ failures' = failures + 1
               /\ pc' = Propagate(TRUE, "returned")
               /\ out' = out \o ProgressEnd(_progress)
               /\ result' = IF pc' = "returned"
                            THEN Some([status |-> _status, start |-> _t0, end |-> now])
                            ELSE result
               /\ UNCHANGED <<log, _skip>>
            \/ \E value \in LogResults :
               LET shown == _show_new_log(_skip, value)
               IN  /\ nLog' = nLog + 1
                   /\ log' = value
                   /\ _skip' = shown.skip
                   /\ out' = out \o ProgressEnd(_progress) \o PrintLines(shown.printed)
                   /\ pc' = "returned"
                   /\ result' = Some([status |-> _status, start |-> _t0, end |-> now])
                   /\ UNCHANGED failures
       ELSE /\ pc' = "returned"
            /\ out' = out \o ProgressEnd(_progress)
            /\ result' = Some([status |-> _status, start |-> _t0, end |-> now])
            /\ UNCHANGED <<log, _skip, nLog, failures>>
    /\ UNCHANGED <<now, args, _show_log, _progress, _poll, _t0, _status,
                   _last_time, _time_end, nStatus, nDelay, slept,
                   nWaitIter, nRunIter, firstTerminal, gap>>

Next ==
    \/ Construct
    \/ WaitToStartEnter
    \/ WaitToStartIter(Durations, MaxPolls)
    \/ WaitToStartExit
    \/ WaitToFinishIter(Durations, MaxPolls)
    \/ WaitToFinishExit

Spec == Init /\ [][Next]_vars

LogSpec == LogInit /\ [][Next]_vars

\* The same wait with a finite timeout and a clock that advances during every
\* paced status() query, which bounds the iterations by the clock's bound.
\* The calling thread runs the wait without stopping: weak fairness of its
\* next step.
LiveInit == Init /\ arg_timeout # None

LiveNext ==
    \/ Construct
    \/ WaitToStartEnter
    \/ WaitToStartIter(PositiveDurations, MaxTime + 1)
    \/ WaitToStartExit
    \/ WaitToFinishIter(PositiveDurations, MaxTime + 1)
    \/ WaitToFinishExit

LiveSpec == LiveInit /\ [][LiveNext]_vars /\ WF_vars(LiveNext)

Ended == pc \in {"returned", "timeout", "failed"}

\* -------------------------------------------------------------- claims

ProgressFragments == {"Waiting", "Running", ".", "OK\n"}
IsProgress(x) == x \in ProgressFragments
IsLogLine(x) == x \notin ProgressFragments
\* The log lines written so far, and the progress output written so far.
Emitted == SelectSeq(out, IsLogLine)
ProgressShown == SelectSeq(out, IsProgress)
Dots(n) == [i \in 1..n |-> "."]
\* The session exists: __init__ returned.
Constructed == pc # "new" /\ ~(pc = "failed" /\ nDelay = 0 /\ nLog = 0)

\* C1: whenever the wait returns a Result, Result.status is in neither
\* status set and is the first status observed that is in neither set.
C1_ResultIsFirstTerminal ==
    pc = "returned" =>
        /\ result[1].status \notin status_waiting \cup status_running
        /\ firstTerminal = Some(result[1].status)

\* C2: with log display on and an append-only log, the log lines written are
\* at every point a prefix of the latest log() result, and when the wait
\* returns they are exactly the last log() result: each line once, in order.
C2_LogEmittedOnce ==
    (_show_log /\ appendOnly) =>
        /\ IsPrefix(Emitted, PrintLines(Lines(log)))
        /\ pc = "returned" => Emitted = PrintLines(Lines(log))

C2_Witness ==
    /\ pc = "returned" /\ _show_log /\ appendOnly
    /\ nLog >= 3 /\ Len(Emitted) >= 2

\* C3: a paced call that has a previous poll time and reads a clock past the
\* deadline raises the timeout at once: no sleep, no status() query, and the
\* wait that timed out has no Result and takes no further step.
C3_TimeoutImmediately ==
    /\ [][(nDelay' = nDelay + 1 /\ _last_time # None /\ After(now, _time_end))
            => (pc' = "timeout" /\ now' = now /\ slept' = 0
                /\ nStatus' = nStatus /\ result' = None)]_vars
    /\ [][pc # "timeout"]_vars
    /\ [](pc = "timeout" => result = None)

\* The timeout raised at a call whose sleep was due: poll not yet elapsed.
C3_Witness ==
    /\ pc = "timeout" /\ nStatus >= 2 /\ After(now, _time_end)
    /\ _poll - (now - _last_time[1]) > 0 /\ slept = 0

\* C4: any two consecutive paced status() queries are at least poll apart
\* on the clock.
C4_PacedApart == gap # None => gap[1] >= _poll

\* C5: with log display on, no progress output at all is written, in the
\* waiting phase or in the running phase.
C5_NoProgressWithLog == _show_log => ProgressShown = <<>>

\* C5, amended: with log display on, the running phase writes no progress
\* output (no "Running" label, no tick, no end label); all the progress
\* output there is, is the waiting phase's: its label, one tick per
\* iteration of its loop, and its end label once the phase is over.
C5_NoRunningProgressWithLog ==
    _show_log =>
        /\ \A i \in 1..Len(out) : out[i] # "Running"
        /\ pc = "waiting" => ProgressShown = <<"Waiting">> \o Dots(nWaitIter)
        /\ pc \in {"running", "returned"} =>
               ProgressShown = <<"Waiting">> \o Dots(nWaitIter) \o <<"OK\n">>
        /\ Len(ProgressShown) <= nWaitIter + 2

C5_Witness ==
    /\ _show_log /\ arg_progress /\ pc = "returned"
    /\ nWaitIter >= 1 /\ nRunIter >= 1

\* C6: with log display on, the output of a wait that returns is "Waiting",
\* one "." per iteration of the waiting loop, "OK" and a newline, and after
\* that the tailed log lines and nothing else.
C6_OutputWithLog ==
    (_show_log /\ pc = "returned") =>
        out = <<"Waiting">> \o Dots(nWaitIter) \o <<"OK\n">> \o Emitted

C6_Witness ==
    /\ _show_log /\ pc = "returned"
    /\ nWaitIter = 2 /\ nRunIter >= 1 /\ Len(Emitted) >= 2

\* C7: with a timeout configured the deadline is Result.start + timeout,
\* however long the first status() query took; with none the deadline is
\* unbounded and the wait never times out.
C7_DeadlineFromStart ==
    Constructed =>
        /\ arg_timeout # None => _time_end = Some(_t0 + arg_timeout[1])
        /\ arg_timeout = None => (_time_end = None /\ pc # "timeout")
        /\ result # None => result[1].start = _t0

\* The wait ends: this holds under LiveSpec.
WaitEnds == <>Ended

\* C8: with a finite timeout and a clock that advances in every poll, every
\* wait ends, and one whose task never reports a status outside the two
\* sets (and never fails) ends with the timeout: it cannot have ended any
\* other way.
C8_EveryWaitEnds ==
    /\ <>Ended
    /\ []((Ended /\ firstTerminal = None /\ failures = 0) => pc = "timeout")

\* C9: a status() or log() call that raises ends the wait with that failure:
\* no status() or log() call follows it, no Result is produced, and a wait
\* ends as exactly one of returned with a Result, timed out, or failed.
C9_FailurePropagates ==
    /\ [](failures > 0 => (pc = "failed" /\ failures = 1))
    /\ [](pc = "failed" => (failures = 1 /\ result = None))
    /\ [](pc = "timeout" => (failures = 0 /\ result = None))
    /\ []((pc = "returned") <=> (result # None))
    /\ [][failures > 0 => (nStatus' = nStatus /\ nLog' = nLog /\ result' = None)]_vars
    /\ [][pc # "failed"]_vars

C9_Witness ==
    pc = "failed" /\ nStatus >= 2 /\ nLog >= 1

\* C10: the log cursor never decreases from one step to the next, and under
\* an append-only log it never exceeds the length of the current log.
C10_SkipMonotone ==
    /\ [][_skip' >= _skip]_vars
    /\ [](appendOnly => _skip <= Len(Lines(log)))

C10_Witness ==
    /\ _skip >= 2 /\ nLog >= 2 /\ Len(Lines(log)) < _skip

\* C11: the tail step is its reference on every cursor and every log value:
\* a log that is absent, empty or no longer than the cursor (a shrunk log
\* included) prints nothing and leaves the cursor; any other log prints
\* exactly its lines at (0-based) indices skip..len-1, in order, each ended
\* by a newline, and moves the cursor to len.
C11_TailReference ==
    [][pc = "tail" =>
        IF log = None \/ Lines(log) = <<>> \/ Len(Lines(log)) <= _skip
        THEN out' = out /\ _skip' = _skip
        ELSE /\ _skip' = Len(Lines(log))
             /\ Len(out') = Len(out) + Len(Lines(log)) - _skip
             /\ \A k \in _skip..(Len(Lines(log)) - 1) :
                    out'[Len(out) + k - _skip + 1] = Lines(log)[k + 1] \o "\n"]_vars

\* tailing ["a", "b", "c"] from cursor 1 printed "b\nc\n" and returned 3
C11_Witness ==
    /\ pc = "tailed" /\ log = Some(<<"a", "b", "c">>)
    /\ _skip = 3 /\ out = <<"b\n", "c\n">>

\* C12: log() is called only when show_log is set and task.has_log() is true;
\* no step of the waiting phase calls it (none has been called while the wait
\* is still constructing, entering or looping on a waiting status); and with
\* effective log display off it is never called and skip stays 0.
C12_LogOnlyWhenShown ==
    /\ [](/\ nLog > 0 => arg_show_log /\ has_log
          /\ pc \in {"new", "wait_to_start", "waiting"} => nLog = 0
          /\ ~(arg_show_log /\ has_log) => nLog = 0 /\ _skip = 0 /\ log = None)
    /\ [][(pc \in {"new", "wait_to_start", "waiting"}) => nLog' = nLog]_vars

\* a wait asked to show the log of a task that has none went through both
\* loops and returned
C12_Witness ==
    /\ pc = "returned" /\ arg_show_log /\ ~has_log
    /\ nWaitIter >= 1 /\ nRunIter >= 1 /\ nLog = 0

\* A step that made a _delay call which did not raise (a status() query
\* followed it).
Paced == nDelay' = nDelay + 1 /\ nStatus' = nStatus + 1

\* C13: a _delay call that does not raise sleeps for exactly
\* max(0, poll - (now - lastPollTime)): the first one (no previous timestamp)
\* does not sleep and returns the clock it read; a later one sleeps only when
\* poll - (now - lastPollTime) > 0, for exactly that amount, never more than
\* poll.
C13_SleepsTheRemainder ==
    [][Paced =>
        IF _last_time = None
        THEN slept' = 0 /\ _last_time' = Some(now)
        ELSE LET remaining == _poll - (now - _last_time[1])
             IN  /\ remaining > 0 => slept' = remaining
                 /\ remaining <= 0 => slept' = 0
                 /\ slept' <= _poll]_vars

\* a paced call one second after the previous timestamp, poll two seconds,
\* slept the one second left
C13_Witness ==
    /\ pc \in {"waiting", "running"} /\ nDelay >= 2
    /\ _poll = 2 /\ slept = 1

\* C14: after a _delay call that has a previous timestamp and does not raise,
\* the recorded self._last_time is the clock after the (possible) sleep, the
\* time at which the status() query that follows is issued, not the clock at
\* which the call began.
C14_RecordsIssueTime ==
    [][(Paced /\ _last_time # None) => _last_time' = Some(now + slept')]_vars

\* C15: status() is queried exactly once when the session is created, before
\* any _delay call; once a status in neither set has been observed, no step
\* calls status() or _delay again (so none sleeps, checks the deadline or
\* times out), and a Result that is returned carries that status; a wait
\* whose first status is in neither set made one status() call and no _delay
\* call when it ends.
C15_TerminalStopsPolling ==
    /\ [][pc = "new" => nStatus' = 1 /\ nDelay' = 0]_vars
    /\ [][firstTerminal # None =>
            /\ nStatus' = nStatus /\ nDelay' = nDelay
            /\ slept' = slept /\ now' = now
            /\ pc' \in {"waiting", "running", "returned", "failed"}]_vars
    /\ []((pc # "new") => nStatus >= 1 /\ nDelay = nStatus - 1 +
                            (IF pc = "timeout" THEN 1 ELSE 0))
    /\ []((pc = "returned" /\ firstTerminal # None) =>
            result = Some([status |-> firstTerminal[1], start |-> _t0, end |-> now]))
    /\ []((Ended /\ firstTerminal # None /\ nWaitIter = 0 /\ nRunIter = 0) =>
            nStatus = 1 /\ nDelay = 0 /\ slept = 0 /\ pc # "timeout")

\* a wait with timeout 0 whose first status was "done" returned it at once
C15_Witness ==
    /\ pc = "returned" /\ arg_timeout = Some(0) /\ _poll > 0
    /\ nStatus = 1 /\ nDelay = 0 /\ firstTerminal = Some("done")
    /\ result # None /\ result[1].status = "done"

\* C16: with effective log display on, log() is called once in every
\* iteration of the running loop, before that iteration's status poll, and
\* once more after the loop and before the Result: while the loop runs the
\* calls made are the iterations made, and a wait that returned made
\* (iterations of the running loop + 1) calls.
C16_TailPerIterationPlusOne ==
    /\ []((_show_log /\ pc = "running") => nLog = nRunIter)
    /\ []((_show_log /\ pc = "returned") => nLog = nRunIter + 1)
    /\ [][(_show_log /\ nRunIter' = nRunIter + 1) => nLog' = nLog + 1]_vars
    /\ [][(_show_log /\ pc' = "returned") => nLog' = nLog + 1 /\ result' # None]_vars

\* as in test_can_print_logs: two iterations of the running loop and three
\* log() calls, after one iteration of the waiting loop
C16_Witness ==
    /\ pc = "returned" /\ _show_log /\ nWaitIter = 1 /\ nRunIter = 2 /\ nLog = 3
    /\ Emitted = <<"Log entry 1\n", "Log entry 2\n">>

\* The phases of a wait: _wait_to_start has been entered, _wait_to_finish has
\* been entered, and each is over (left normally or by an exception).
WaitingEntered == Constructed /\ pc # "wait_to_start"
RunningEntered == pc \in {"running", "returned"} \/ nRunIter > 0 \/ nLog > 0
WaitingOver == RunningEntered \/ (WaitingEntered /\ pc \in {"timeout", "failed"})
RunningOver == RunningEntered /\ pc \in {"returned", "timeout", "failed"}
\* The progress output of one phase: nothing when its display is off or the
\* phase was not entered; else its label, its ticks, and its end label once
\* the phase is over.
PhaseProgress(label, display, entered, ticks, over) ==
    IF display /\ entered
    THEN <<label>> \o Dots(ticks) \o (IF over THEN <<"OK\n">> ELSE <<>>)
    ELSE <<>>

\* C17: a phase whose progress display is on writes its start label once, one
\* tick per iteration of its loop (each a paced poll), and its end label once
\* when it is over, however it ends: its loop condition failing, TimeoutError,
\* or status() or log() raising; a phase whose display is off writes none of
\* the three.  The progress output is that of the waiting phase then that of
\* the running phase.
C17_ProgressPerPhase ==
    /\ ProgressShown =
          PhaseProgress("Waiting", _show_log \/ _progress, WaitingEntered,
                        nWaitIter, WaitingOver)
          \o PhaseProgress("Running", _progress, RunningEntered,
                           nRunIter, RunningOver)
    /\ _progress => nWaitIter + nRunIter = nDelay

\* a timeout in the second iteration of the running loop, progress shown:
\* both phases wrote their label, their ticks and their end label
C17_Witness ==
    /\ pc = "timeout" /\ _progress
    /\ out = <<"Waiting", ".", "OK\n", "Running", ".", ".", "OK\n">>

\* status() raised in the waiting loop, log shown: the end label was written
C17_WitnessFailure ==
    /\ pc = "failed" /\ _show_log /\ nRunIter = 0 /\ nLog = 0
    /\ out = <<"Waiting", ".", ".", "OK\n">>

\* C18: for every show_log, progress and task.has_log(), the session's log
\* flag is show_log and has_log(), its progress flag is progress and not the
\* log flag, the two are never both set, and no step after __init__ changes
\* either flag, poll or the deadline.
C18_EffectiveFlags ==
    /\ [](Constructed =>
            /\ _show_log = (arg_show_log /\ has_log)
            /\ _progress = (arg_progress /\ ~_show_log)
            /\ ~(_show_log /\ _progress))
    /\ [][pc # "new" => UNCHANGED <<_show_log, _progress, _poll, _time_end>>]_vars

\* a wait asked for both displays on a task without a log: progress only,
\* still so when it returned after three paced polls
C18_Witness ==
    /\ pc = "returned" /\ arg_show_log /\ arg_progress /\ ~has_log
    /\ ~_show_log /\ _progress /\ _time_end # None /\ nDelay = MaxPolls

\* C19: with a timeout configured, no paced status() query is issued at a
\* clock later than the deadline, be it after the first paced call or after
\* a pacing sleep.
C19_NoQueryPastDeadline ==
    [][(Paced /\ _time_end # None) => now + slept' <= _time_end[1]]_vars

\* C19, amended: with a timeout configured, a paced call that has a previous
\* timestamp issues its status() query only if the clock it read on entry,
\* before any sleep, is not later than the deadline; the query itself,
\* issued after the sleep, is at most poll later than the deadline.
C19_NoQueryAfterLateEntry ==
    [][(Paced /\ _time_end # None /\ _last_time # None) =>
        /\ now <= _time_end[1]
        /\ now + slept' <= _time_end[1] + _poll]_vars

\* a paced call read a clock within the deadline, slept, and issued its
\* status() query after the deadline
C19_Witness ==
    /\ pc \in {"waiting", "running", "returned"} /\ _time_end # None
    /\ nDelay >= 2 /\ slept > 0
    /\ _last_time[1] <= _time_end[1] /\ LastIssue > _time_end[1]

\* C20: when _delay raises TimeoutError in the running loop, the
\* self._show_new_log() after the loop is not run: the step of the failing
\* check made the in-loop log() call of its iteration and no other, the wait
\* is over with as many log() calls as iterations and a cursor that counts
\* the lines written so far, and nothing is called or written after it.
C20_NoFlushOnTimeout ==
    /\ [][(pc = "running" /\ nDelay' = nDelay + 1 /\ nStatus' = nStatus) =>
            /\ pc' = "timeout"
            /\ nLog' = nLog + (IF _show_log THEN 1 ELSE 0)
            /\ result' = None]_vars
    /\ []((pc = "timeout" /\ nRunIter > 0 /\ _show_log) =>
            nLog = nRunIter /\ _skip = Len(Emitted) /\ _skip = Len(Lines(log)))
    /\ [][pc = "timeout" => UNCHANGED <<nLog, _skip, log, out>>]_vars

\* a timeout in the second iteration of the running loop, log shown: two
\* log() calls, the lines of the second one written
C20_Witness ==
    /\ pc = "timeout" /\ _show_log /\ nRunIter = 2 /\ nLog = 2
    /\ _skip = 2 /\ Emitted = <<"Log entry 1\n", "Log entry 2\n">>
====
